---- MODULE Spec2Model ----
(***************************************************************************)
(* A model of OryxScraper (src/oryx_wat_scraper/client.py; src/scraper.py  *)
(* holds the same code in a standalone script).                            *)
(*                                                                         *)
(* Text is a sequence of tokens.  A token is one character ("3", " ", ":", *)
(* "(", ",", ")") or one word, a run of letters that the regular           *)
(* expressions of the code only ever read as a whole ("destroyed",         *)
(* "Russia", "T-64").  Markup is a sequence of nodes: a text node or an    *)
(* anchor element <a href="...">text</a>.                                  *)
(*                                                                         *)
(* Four specifications share the variables:                                *)
(*   SpecAgg     the two aggregations over an arbitrary entry list         *)
(*   SpecParse   parse_equipment_line over an arbitrary line and markup    *)
(*   SpecScan    the block loop of scrape_equipment_entries                *)
(*   SpecScrape  scrape, scrape_to_csv and scrape_to_json: one fetch and   *)
(*               one scan per requested country, then the two tables       *)
(***************************************************************************)
EXTENDS Integers, Sequences, FiniteSets, TLC

VARIABLES
    pc,                 \* position of the run
    \* generate_daily_count_csv / generate_totals_by_type_csv
    all_entries,        \* the entry list handed to the aggregations
    perm_entries,       \* a reordering of all_entries
    daily_count,        \* generate_daily_count_csv(all_entries)
    totals_by_type,     \* generate_totals_by_type_csv(all_entries)
    daily_perm,         \* generate_daily_count_csv(perm_entries)
    totals_perm,        \* generate_totals_by_type_csv(perm_entries)
    \* parse_equipment_line
    line,               \* the text line
    html_line,          \* [given, nodes]: the optional markup of the line
    country,            \* the country argument
    parsed,             \* the list parse_equipment_line returned
    \* scrape_equipment_entries
    doc,                \* the blocks read so far, in document order
    in_country_section,
    current_category,
    entries,
    \* scrape / scrape_to_csv / scrape_to_json
    call,               \* the call made: [method, countries, output_file]
    countries,          \* the local list of scrape
    idx,                \* the position of `for country in countries`, from 1
    trace,              \* what the run did so far: fetches, scans returned, failures
    result,             \* the dict scrape returned
    error,              \* the exception that left the call, None without one
    files               \* the files written under output_dir / at output_file

aggVars == <<all_entries, perm_entries, daily_count, totals_by_type, daily_perm, totals_perm>>
parseVars == <<line, html_line, parsed>>
scanVars == <<doc, in_country_section, current_category, entries>>
scrapeVars == <<call, countries, idx, trace, result, error, files>>
vars == <<pc, aggVars, parseVars, country, scanVars, scrapeVars>>

-----------------------------------------------------------------------------
(* Bounds of the model *)

MaxEntries == 3
MaxFrags == 2
MaxBlocks == 4
MaxCountries == 2
MaxDocBlocks == 3

-----------------------------------------------------------------------------
(* Values *)

None == "<None>"

Statuses == {"destroyed", "captured", "abandoned", "damaged"}

\* self.current_date: the date of the run, fixed at construction
current_date == "2026-11-06"

BASE_URL == "https://www.oryxspioenkop.com/2022/02/attack-on-europe-documenting-equipment.html"

\* html_line=None
NoMarkup == [given |-> FALSE, nodes |-> <<>>]

\* current_category = None
NoCategory == <<None>>

\* countries=None
NoCountries == <<None>>

\* No dict was returned
NoResult ==
    [url |-> None, date_scraped |-> None, total_entries |-> 0,
     daily_count |-> <<>>, totals_by_type |-> <<>>]

\* Python truthiness of an Optional[str]
Falsy(x) == x = None \/ x = ""

EquipmentEntry(c, eq, st, u, d) ==
    [country |-> c, equipment_type |-> eq, status |-> st, url |-> u, date_recorded |-> d]

-----------------------------------------------------------------------------
(* The aggregations *)

\* defaultdict(lambda: {"destroyed": 0, "abandoned": 0, "captured": 0, "damaged": 0})
ZeroCounts == [s \in Statuses |-> 0]

\* sum(counts.values())
SumCounts(counts) ==
    counts["destroyed"] + counts["abandoned"] + counts["captured"] + counts["damaged"]

\* A bug: the entry's own date_recorded is the key, a missing one included
DailyKeyRawDate(entry) ==
    <<entry.country, entry.equipment_type, entry.date_recorded>>

DailyKey(entry) ==
    <<entry.country, entry.equipment_type,
      IF Falsy(entry.date_recorded) THEN current_date ELSE entry.date_recorded>>

\* A bug: the totals are keyed like the daily counts
TotalsKeyWithDate(entry) ==
    <<entry.country, entry.equipment_type, entry.date_recorded>>

TotalsKey(entry) ==
    <<entry.country, entry.equipment_type>>

\* A bug: only the group opened last is looked up (grouping of consecutive entries)
KeyIndexLastOnly(grouped, key) ==
    IF Len(grouped) > 0 /\ grouped[Len(grouped)].key = key THEN Len(grouped) ELSE 0

\* The position of key in the dict (insertion order), 0 when it is not there
KeyIndex(grouped, key) ==
    IF \E j \in 1..Len(grouped) : grouped[j].key = key
    THEN CHOOSE j \in 1..Len(grouped) : grouped[j].key = key
    ELSE 0

\* grouped[key][status] += 1
Increment(grouped, key, status) ==
    LET j == KeyIndex(grouped, key)
    IN  IF j = 0
        THEN Append(grouped, [key |-> key, counts |-> [ZeroCounts EXCEPT ![status] = 1]])
        ELSE [grouped EXCEPT ![j].counts[status] = @ + 1]

\* for entry in entries: grouped[key][entry.status] += 1
RECURSIVE GroupFrom(_, _, _)
GroupFrom(keyed, i, grouped) ==
    IF i > Len(keyed) THEN grouped
    ELSE GroupFrom(keyed, i + 1, Increment(grouped, keyed[i].key, keyed[i].status))

generate_daily_count_csv(es) ==
    LET keyed == [i \in 1..Len(es) |-> [key |-> DailyKey(es[i]), status |-> es[i].status]]
        grouped == GroupFrom(keyed, 1, <<>>)
    IN  [j \in 1..Len(grouped) |->
            [country |-> grouped[j].key[1],
             equipment_type |-> grouped[j].key[2],
             destroyed |-> grouped[j].counts["destroyed"],
             abandoned |-> grouped[j].counts["abandoned"],
             captured |-> grouped[j].counts["captured"],
             damaged |-> grouped[j].counts["damaged"],
             type_total |-> SumCounts(grouped[j].counts),
             date_recorded |-> grouped[j].key[3]]]

generate_totals_by_type_csv(es) ==
    LET keyed == [i \in 1..Len(es) |-> [key |-> TotalsKey(es[i]), status |-> es[i].status]]
        grouped == GroupFrom(keyed, 1, <<>>)
    IN  [j \in 1..Len(grouped) |->
            [country |-> grouped[j].key[1],
             type |-> grouped[j].key[2],
             destroyed |-> grouped[j].counts["destroyed"],
             abandoned |-> grouped[j].counts["abandoned"],
             captured |-> grouped[j].counts["captured"],
             damaged |-> grouped[j].counts["damaged"],
             total |-> SumCounts(grouped[j].counts)]]

\* The entries a caller may hand to the aggregations: EquipmentEntry objects
\* with a status of the closed set and an Optional date_recorded
AggEntryPool ==
    { EquipmentEntry("russia", <<"T-64">>, "destroyed", None, current_date),
      EquipmentEntry("russia", <<"T-64">>, "captured", None, None),
      EquipmentEntry("russia", <<"T-64">>, "damaged", None, "2022-02-24"),
      EquipmentEntry("russia", <<"BMP-1">>, "abandoned", None, current_date),
      EquipmentEntry("ukraine", <<"T-64">>, "destroyed", None, current_date) }

\* The reorderings of a list
Reorderings(s) ==
    LET n == Len(s)
        bij == {p \in [1..n -> 1..n] : \A i, j \in 1..n : p[i] = p[j] => i = j}
    IN  {[i \in 1..n |-> s[p[i]]] : p \in bij}

-----------------------------------------------------------------------------
(* Text: tokens, character classes, the pieces of the regular expressions *)

Digits == <<"0", "1", "2", "3", "4", "5", "6", "7", "8", "9">>

\* \d
IsDigit(t) == \E v \in 1..10 : Digits[v] = t

DigitValue(t) == (CHOOSE v \in 1..10 : Digits[v] = t) - 1

\* \s
IsSpace(t) == t = " "

\* str.lower() of a token
Lower(t) ==
    CASE t = "Destroyed" -> "destroyed"
      [] t = "DAMAGED" -> "damaged"
      [] t = "Damaged" -> "damaged"
      [] t = "Russia" -> "russia"
      [] t = "Ukraine" -> "ukraine"
      [] t = "Total" -> "total"
      [] t = "Losses" -> "losses"
      [] t = "Tanks" -> "tanks"
      [] t = "Note" -> "note"
      [] t = "T-64" -> "t-64"
      [] t = "BMP-1" -> "bmp-1"
      [] t = "BMP" -> "bmp"
      [] OTHER -> t

\* The token at position i, "" past either end
At(s, i) == IF i \in 1..Len(s) THEN s[i] ELSE ""

\* Whether token t is of class \d ("d") or \s ("s")
InClass(t, cls) == IF cls = "d" THEN IsDigit(t) ELSE IsSpace(t)

\* The length of the longest run of tokens of a class that starts at position i
RunLen(s, i, cls) ==
    LET most == IF i \in 1..Len(s) THEN Len(s) - i + 1 ELSE 0
    IN  CHOOSE n \in 0..most :
            /\ \A k \in i..(i + n - 1) : InClass(s[k], cls)
            /\ n = most \/ ~InClass(s[i + n], cls)

\* The length of the run of spaces that ends at position i
RunLenBack(s, i) ==
    CHOOSE n \in 0..i :
        /\ \A k \in (i - n + 1)..i : IsSpace(s[k])
        /\ n = i \/ ~IsSpace(s[i - n])

\* str.strip()
Strip(s) ==
    LET a == RunLen(s, 1, "s")
    IN  IF a = Len(s) THEN <<>>
        ELSE SubSeq(s, a + 1, Len(s) - RunLenBack(s, Len(s)))

RECURSIVE IntOf(_)
\* int() of a run of digits
IntOf(ds) ==
    IF ds = <<>> THEN 0
    ELSE 10 * IntOf(SubSeq(ds, 1, Len(ds) - 1)) + DigitValue(ds[Len(ds)])

\* [e] * n
Repeat(e, n) == [k \in 1..n |-> e]

\* re.match(r"^(\d+)\s+(.+?)\s*:", s): the digits are the longest run (a
\* shorter run is followed by a digit, not by \s); \s+ is greedy and gives
\* back one space at a time; (.+?) is lazy, at least one token, and ends at
\* the first place from which \s*: matches.
ItemMatch(s) ==
    LET d == RunLen(s, 1, "d")
        w == RunLen(s, d + 1, "s")
        ColonAfter(e) == At(s, e + 1 + RunLen(s, e + 1, "s")) = ":"
        cands == {je \in (1..w) \X (1..Len(s)) : je[2] >= d + je[1] + 1 /\ ColonAfter(je[2])}
        best == CHOOSE je \in cands :
                    \A o \in cands : o[1] < je[1] \/ (o[1] = je[1] /\ o[2] >= je[2])
    IN  IF d >= 1 /\ w >= 1 /\ cands # {}
        THEN [ok |-> TRUE, digits |-> SubSeq(s, 1, d), name |-> SubSeq(s, d + best[1] + 1, best[2])]
        ELSE [ok |-> FALSE, digits |-> <<>>, name |-> <<>>]

-----------------------------------------------------------------------------
(* Markup: a node is a text node or an anchor element with its href *)

NoHref == "<no href>"

TextNode(toks) == [kind |-> "text", href |-> NoHref, text |-> toks]
Anchor(href, toks) == [kind |-> "a", href |-> href, text |-> toks]

\* The characters of the link targets of the model
UrlChars(u) ==
    CASE u = "http://x/1" -> <<"h", "t", "t", "p", ":", "/", "/", "x", "/", "1">>
      [] u = "/rel/1" -> <<"/", "r", "e", "l", "/", "1">>
      [] u = "http/1.jpg" -> <<"h", "t", "t", "p", "/", "1", ".", "j", "p", "g">>
      [] OTHER -> <<>>

\* str.startswith
StartsWith(cs, prefix) ==
    Len(cs) >= Len(prefix) /\ SubSeq(cs, 1, Len(prefix)) = prefix

\* url if url.startswith("http") else None
KeptUrl(url) ==
    IF StartsWith(UrlChars(url), <<"h", "t", "t", "p">>) THEN url ELSE None

\* `if html_line:` - markup was passed and is not the empty string
HtmlTruthy(html) ==
    html.given /\ \E i \in 1..Len(html.nodes) :
                      html.nodes[i].kind = "a" \/ html.nodes[i].text # <<>>

\* <a[^>]*href="([^"]*)"[^>]*>\((\d+),\s*(destroyed|captured|abandoned|damaged)\)</a>
\* with re.IGNORECASE, on one element: an anchor that has an href and whose
\* content is exactly "(", digits, ",", optional spaces, a status word, ")".
LinkMatch(node) ==
    LET t == node.text
        d == RunLen(t, 2, "d")
        b == RunLen(t, 3 + d, "s")
        w == 3 + d + b
    IN  [ok |-> /\ node.kind = "a" /\ node.href # NoHref
                /\ At(t, 1) = "(" /\ d >= 1 /\ At(t, 2 + d) = ","
                /\ Lower(At(t, w)) \in Statuses /\ At(t, w + 1) = ")"
                /\ Len(t) = w + 1,
         url |-> node.href,
         status |-> Lower(At(t, w))]

RECURSIVE LinkEntries(_, _, _, _)
\* for link_match in re.finditer(link_pattern, html_line, re.IGNORECASE): entries.append(...)
LinkEntries(nodes, i, ctry, equipment_name) ==
    IF i > Len(nodes) THEN <<>>
    ELSE LET m == LinkMatch(nodes[i])
         IN  (IF m.ok
              THEN <<EquipmentEntry(Lower(ctry), equipment_name, m.status,
                                    KeptUrl(m.url), current_date)>>
              ELSE <<>>)
             \o LinkEntries(nodes, i + 1, ctry, equipment_name)

-----------------------------------------------------------------------------
(* parse_equipment_line *)

RECURSIVE NumberListEnd(_, _)
\* (?:\s*,\s*\d+)* from position p, greedy: the position after the last number
NumberListEnd(s, p) ==
    LET q == p + RunLen(s, p, "s")
        n == q + 1 + RunLen(s, q + 1, "s")
        d == RunLen(s, n, "d")
    IN  IF At(s, q) = "," /\ d >= 1 THEN NumberListEnd(s, n + d) ELSE p

\* \((\d+(?:\s*,\s*\d+)*)\s*,\s*(destroyed|captured|abandoned|damaged)\) with
\* re.IGNORECASE, matched at position i
StatusMatchAt(s, i) ==
    LET d == RunLen(s, i + 1, "d")
        p == NumberListEnd(s, i + 1 + d)
        q == p + RunLen(s, p, "s")
        w == q + 1 + RunLen(s, q + 1, "s")
    IN  [ok |-> /\ At(s, i) = "(" /\ d >= 1 /\ At(s, q) = ","
                /\ Lower(At(s, w)) \in Statuses /\ At(s, w + 1) = ")",
         numbers_str |-> SubSeq(s, i + 1, p - 1),
         status |-> Lower(At(s, w)),
         end |-> w + 1]

\* A bug: the numbers of the group are added up
SumOfNumbers(numbers_str) ==
    LET starts == {k \in 1..Len(numbers_str) :
                      IsDigit(numbers_str[k]) /\ ~IsDigit(At(numbers_str, k - 1))}
        val(k) == IntOf(SubSeq(numbers_str, k, k + RunLen(numbers_str, k, "d") - 1))
        RECURSIVE add(_)
        add(S) == IF S = {} THEN 0 ELSE LET k == CHOOSE x \in S : TRUE IN val(k) + add(S \ {k})
    IN  add(starts)

\* len(re.findall(r"\d+", numbers_str)): the number of runs of digits
CountOfNumbers(numbers_str) ==
    Cardinality({k \in 1..Len(numbers_str) :
                    IsDigit(numbers_str[k]) /\ ~IsDigit(At(numbers_str, k - 1))})

RECURSIVE StatusEntries(_, _, _, _)
\* for status_match in re.finditer(status_pattern, line, re.IGNORECASE):
\*     for _ in range(count): entries.append(...)
StatusEntries(s, i, ctry, equipment_name) ==
    IF i > Len(s) THEN <<>>
    ELSE LET m == StatusMatchAt(s, i)
         IN  IF m.ok
             THEN Repeat(EquipmentEntry(Lower(ctry), equipment_name, m.status, None, current_date),
                         CountOfNumbers(m.numbers_str))
                  \o StatusEntries(s, m.end + 1, ctry, equipment_name)
             ELSE StatusEntries(s, i + 1, ctry, equipment_name)

\* The markup tier: if html_line: ... entries.append(...)
MarkupTier(got, html, ctry, equipment_name) ==
    IF HtmlTruthy(html) THEN got \o LinkEntries(html.nodes, 1, ctry, equipment_name) ELSE got

\* A bug: the text is scanned although the markup gave entries
TextTierAlways(got, ln, ctry, equipment_name) ==
    got \o StatusEntries(ln, 1, ctry, equipment_name)

\* The plain-text tier: if not entries: ... entries.append(...)
TextTier(got, ln, ctry, equipment_name) ==
    IF got = <<>> THEN got \o StatusEntries(ln, 1, ctry, equipment_name) ELSE got

\* A bug: the declared total is filled in although markers were found
FallbackTierAlways(got, total_count, ctry, equipment_name) ==
    IF total_count > 0
    THEN got \o Repeat(EquipmentEntry(Lower(ctry), equipment_name, "destroyed", None, current_date),
                       total_count)
    ELSE got

\* A bug: a line without marker gives an entry even when it declares none
FallbackTierAtLeastOne(got, total_count, ctry, equipment_name) ==
    IF got = <<>>
    THEN Repeat(EquipmentEntry(Lower(ctry), equipment_name, "destroyed", None, current_date),
                IF total_count > 0 THEN total_count ELSE 1)
    ELSE got

\* A bug: one entry short
FallbackTierShort(got, total_count, ctry, equipment_name) ==
    IF got = <<>> /\ total_count > 1
    THEN got \o Repeat(EquipmentEntry(Lower(ctry), equipment_name, "destroyed", None, current_date),
                       total_count - 1)
    ELSE got

\* The fallback tier: if not entries and total_count > 0: ... entries.append(...)
FallbackTier(got, total_count, ctry, equipment_name) ==
    IF got = <<>> /\ total_count > 0
    THEN got \o Repeat(EquipmentEntry(Lower(ctry), equipment_name, "destroyed", None, current_date),
                       total_count)
    ELSE got

\* category is a parameter the code never reads
parse_equipment_line(ln, ctry, category, html) ==
    LET match == ItemMatch(Strip(ln))
        total_count == IntOf(match.digits)
        equipment_name == Strip(match.name)
    IN  IF ~match.ok THEN <<>>
        ELSE FallbackTier(
                 TextTier(MarkupTier(<<>>, html, ctry, equipment_name),
                          ln, ctry, equipment_name),
                 total_count, ctry, equipment_name)

-----------------------------------------------------------------------------
(* scrape_equipment_entries: the loop over the blocks of the content *)

RECURSIVE GetTextFrom(_, _)
\* element.get_text(strip=True): the text nodes of the element, each
\* stripped, the empty ones dropped, joined without separator
GetTextFrom(nodes, i) ==
    IF i > Len(nodes) THEN <<>>
    ELSE Strip(nodes[i].text) \o GetTextFrom(nodes, i + 1)

GetText(nodes) == GetTextFrom(nodes, 1)

\* `word in text.lower()` for a lower-case word; no token of the model holds
\* another one inside it
Contains(text, word) ==
    word = "" \/ \E i \in 1..Len(text) : Lower(text[i]) = word

\* country_lower in text.lower() and any(word in text.lower() for word in ["total", "losses"])
IsSectionHeader(text, country_lower) ==
    /\ Contains(text, country_lower)
    /\ Contains(text, "total") \/ Contains(text, "losses")

\* A bug: the scan never leaves the section
SectionExitNever(text, country_lower, in_section) == FALSE

\* if in_country_section: the other country's name is in the text
SectionExit(text, country_lower, in_section) ==
    in_section /\ \/ Contains(text, "ukraine") /\ country_lower = "russia"
                  \/ Contains(text, "russia") /\ country_lower = "ukraine"

\* re.search(r"^([^(]+?)\s*\((\d+)", text): the first "(" is not the first
\* token and a digit follows it; group 1 is lazy and ends before the spaces
\* that precede the "(", but holds at least one token
CategoryMatch(text) ==
    LET opens == {k \in 1..Len(text) : text[k] = "("}
        q == IF opens = {} THEN 0 ELSE CHOOSE k \in opens : \A o \in opens : k <= o
        e == IF q - 1 - RunLenBack(text, q - 1) >= 1 THEN q - 1 - RunLenBack(text, q - 1) ELSE 1
    IN  IF q >= 2 /\ IsDigit(At(text, q + 1))
        THEN [ok |-> TRUE, label |-> Strip(SubSeq(text, 1, e))]
        ELSE [ok |-> FALSE, label |-> <<>>]

\* A bug: the item step does not wait for a category
TruthyAlways(category) == TRUE

\* `if in_country_section and current_category`
Truthy(category) == category # NoCategory /\ category # <<>>

\* A bug: the exit and the category are tested before the section header
OutcomeExitFirst(element, ctry, in_section, category) ==
    LET text == GetText(element)
        country_lower == Lower(ctry)
    IN  IF text = <<>> THEN "empty"
        ELSE IF SectionExit(text, country_lower, in_section) THEN "halt"
        ELSE IF CategoryMatch(text).ok THEN "category"
        ELSE IF IsSectionHeader(text, country_lower) THEN "section"
        ELSE IF in_section /\ Truthy(category) /\ ItemMatch(text).ok THEN "item"
        ELSE "skip"

\* The branch of the loop body a block takes
Outcome(element, ctry, in_section, category) ==
    LET text == GetText(element)
        country_lower == Lower(ctry)
    IN  IF text = <<>> THEN "empty"
        ELSE IF IsSectionHeader(text, country_lower) THEN "section"
        ELSE IF SectionExit(text, country_lower, in_section) THEN "halt"
        ELSE IF CategoryMatch(text).ok THEN "category"
        ELSE IF in_section /\ Truthy(category) /\ ItemMatch(text).ok THEN "item"
        ELSE "skip"

\* A bug: a section header clears the category
LoopBodyClearsCategory(element) ==
    LET text == GetText(element)
        out == Outcome(element, country, in_country_section, current_category)
    IN  /\ in_country_section' = (in_country_section \/ out = "section")
        /\ current_category' = IF out = "category" THEN CategoryMatch(text).label
                               ELSE IF out = "section" THEN NoCategory
                               ELSE current_category
        /\ entries' = IF out = "item"
                      THEN entries \o parse_equipment_line(text, country, current_category,
                                                           [given |-> TRUE, nodes |-> element])
                      ELSE entries
        /\ pc' = IF out = "halt" THEN "scan_done" ELSE "scan"

\* One pass of `for element in content.find_all(["p", "li", "div"])`
LoopBody(element) ==
    LET text == GetText(element)
        out == Outcome(element, country, in_country_section, current_category)
    IN  /\ in_country_section' = (in_country_section \/ out = "section")
        /\ current_category' = IF out = "category" THEN CategoryMatch(text).label
                               ELSE current_category
        /\ entries' = IF out = "item"
                      THEN entries \o parse_equipment_line(text, country, current_category,
                                                           [given |-> TRUE, nodes |-> element])
                      ELSE entries
        /\ pc' = IF out = "halt" THEN "scan_done" ELSE "scan"

-----------------------------------------------------------------------------
(* Idle values of the variables a specification does not use *)

AggIdle ==
    /\ all_entries = <<>> /\ perm_entries = <<>>
    /\ daily_count = <<>> /\ totals_by_type = <<>>
    /\ daily_perm = <<>> /\ totals_perm = <<>>

ParseIdle == line = <<>> /\ html_line = NoMarkup /\ parsed = <<>>

ScanIdle ==
    /\ doc = <<>> /\ in_country_section = FALSE
    /\ current_category = NoCategory /\ entries = <<>>

ScrapeIdle ==
    /\ call = [method |-> None, countries |-> NoCountries, output_file |-> None]
    /\ countries = NoCountries /\ idx = 0 /\ trace = <<>>
    /\ result = NoResult /\ error = None /\ files = {}

-----------------------------------------------------------------------------
(* SpecAgg: a caller builds an entry list and aggregates it *)

InitAgg ==
    /\ pc = "agg_input"
    /\ AggIdle /\ ParseIdle /\ ScanIdle /\ ScrapeIdle
    /\ country = ""

AddEntry ==
    /\ pc = "agg_input"
    /\ Len(all_entries) < MaxEntries
    /\ \E e \in AggEntryPool : all_entries' = Append(all_entries, e)
    /\ UNCHANGED <<pc, perm_entries, daily_count, totals_by_type, daily_perm, totals_perm,
                   parseVars, country, scanVars, scrapeVars>>

Aggregate ==
    /\ pc = "agg_input"
    /\ \E p \in Reorderings(all_entries) :
        /\ perm_entries' = p
        /\ daily_perm' = generate_daily_count_csv(p)
        /\ totals_perm' = generate_totals_by_type_csv(p)
    /\ daily_count' = generate_daily_count_csv(all_entries)
    /\ totals_by_type' = generate_totals_by_type_csv(all_entries)
    /\ pc' = "agg_done"
    /\ UNCHANGED <<all_entries, parseVars, country, scanVars, scrapeVars>>

NextAgg == AddEntry \/ Aggregate

SpecAgg == InitAgg /\ [][NextAgg]_vars

-----------------------------------------------------------------------------
(* SpecParse: a caller assembles a line, piece by piece, and its markup,   *)
(* and calls parse_equipment_line with the line and, or not, the markup    *)

\* "3 T-64:", "2 BMP-1:", "5 Tanks:", "0 Tanks:", "3  :", " 12 T-64 :", "Tanks (5"
HeadPool ==
    { <<"3", " ", "T-64", ":">>,
      <<"2", " ", "BMP-1", ":">>,
      <<"5", " ", "Tanks", ":">>,
      <<"0", " ", "Tanks", ":">>,
      <<"3", " ", " ", ":">>,
      <<" ", "1", "2", " ", "T-64", " ", ":">>,
      <<"Tanks", " ", "(", "5">> }

\* "(1, destroyed)", "(2, destroyed)", "(1, captured)", "(1, 2, Damaged)",
\* "(7 , abandoned)", "(x)"
TextPool ==
    { <<"(", "1", ",", " ", "destroyed", ")">>,
      <<"(", "2", ",", " ", "destroyed", ")">>,
      <<"(", "1", ",", " ", "captured", ")">>,
      <<"(", "1", ",", " ", "2", ",", " ", "Damaged", ")">>,
      <<"(", "7", " ", ",", " ", "abandoned", ")">>,
      <<"(", "x", ")">> }

HrefPool == {"http://x/1", "/rel/1", "http/1.jpg", ""}

\* <a href="...">(1, destroyed)</a>, <a href="...">(3,DAMAGED)</a> and an
\* anchor without href
AnchorPool ==
    {Anchor(h, t) : h \in HrefPool,
                    t \in { <<"(", "1", ",", " ", "destroyed", ")">>,
                            <<"(", "3", ",", "DAMAGED", ")">> }}
    \cup {Anchor(NoHref, <<"(", "1", ",", " ", "destroyed", ")">>)}

CountryPool == {"Russia", "ukraine"}

InitParse ==
    /\ pc = "parse_input"
    /\ line \in HeadPool
    /\ html_line = [given |-> TRUE, nodes |-> <<TextNode(line)>>]
    /\ parsed = <<>>
    /\ country = ""
    /\ AggIdle /\ ScanIdle /\ ScrapeIdle

AddText ==
    /\ pc = "parse_input"
    /\ Len(html_line.nodes) <= MaxFrags
    /\ \E t \in TextPool :
        /\ line' = line \o <<" ">> \o t
        /\ html_line' = [html_line EXCEPT !.nodes = Append(@, TextNode(<<" ">> \o t))]
    /\ UNCHANGED <<pc, parsed, country, aggVars, scanVars, scrapeVars>>

AddAnchor ==
    /\ pc = "parse_input"
    /\ Len(html_line.nodes) <= MaxFrags
    /\ \E a \in AnchorPool :
        /\ line' = line \o <<" ">> \o a.text
        /\ html_line' = [html_line EXCEPT !.nodes = Append(@, a)]
    /\ UNCHANGED <<pc, parsed, country, aggVars, scanVars, scrapeVars>>

\* parse_equipment_line(line, country, category, html_line), html_line the
\* markup or None
ParseLine ==
    /\ pc = "parse_input"
    /\ \E given \in BOOLEAN, c \in CountryPool :
        /\ html_line' = [html_line EXCEPT !.given = given]
        /\ country' = c
        /\ parsed' = parse_equipment_line(line, c, NoCategory,
                                          [html_line EXCEPT !.given = given])
    /\ pc' = "parse_done"
    /\ UNCHANGED <<line, aggVars, scanVars, scrapeVars>>

NextParse == AddText \/ AddAnchor \/ ParseLine

SpecParse == InitParse /\ [][NextParse]_vars

-----------------------------------------------------------------------------
(* Claims about parse_equipment_line (SpecParse).  What a line holds is    *)
(* read off the pieces it was assembled from, not off the parser.          *)

\* The head the line starts with: whether it declares an item, and its total
HeadIsItem == html_line.nodes[1].text # <<"Tanks", " ", "(", "5">>

HeadTotal ==
    LET h == html_line.nodes[1].text
    IN  CASE h = <<"3", " ", "T-64", ":">> -> 3
          [] h = <<"2", " ", "BMP-1", ":">> -> 2
          [] h = <<"5", " ", "Tanks", ":">> -> 5
          [] h = <<"0", " ", "Tanks", ":">> -> 0
          [] h = <<"3", " ", " ", ":">> -> 3
          [] h = <<" ", "1", "2", " ", "T-64", " ", ":">> -> 12
          [] OTHER -> 0

\* A piece "(n1[, n2 ...], status-word)": how many numbers, which status
GroupSize(t) ==
    CASE t = <<"(", "1", ",", " ", "destroyed", ")">> -> 1
      [] t = <<"(", "2", ",", " ", "destroyed", ")">> -> 1
      [] t = <<"(", "1", ",", " ", "captured", ")">> -> 1
      [] t = <<"(", "1", ",", " ", "2", ",", " ", "Damaged", ")">> -> 2
      [] t = <<"(", "7", " ", ",", " ", "abandoned", ")">> -> 1
      [] t = <<"(", "3", ",", "DAMAGED", ")">> -> 1
      [] OTHER -> 0

GroupStatus(t) ==
    CASE t = <<"(", "1", ",", " ", "destroyed", ")">> -> "destroyed"
      [] t = <<"(", "2", ",", " ", "destroyed", ")">> -> "destroyed"
      [] t = <<"(", "1", ",", " ", "captured", ")">> -> "captured"
      [] t = <<"(", "1", ",", " ", "2", ",", " ", "Damaged", ")">> -> "damaged"
      [] t = <<"(", "7", " ", ",", " ", "abandoned", ")">> -> "abandoned"
      [] t = <<"(", "3", ",", "DAMAGED", ")">> -> "damaged"
      [] OTHER -> None

\* The text of piece i without the space that joins it to the line
PieceText(i) ==
    LET n == html_line.nodes[i]
    IN  IF n.kind = "text" THEN Tail(n.text) ELSE n.text

RECURSIVE GroupMarkers(_)
\* The statuses of the groups of the line from piece i on, one per number
GroupMarkers(i) ==
    IF i > Len(html_line.nodes) THEN <<>>
    ELSE Repeat([status |-> GroupStatus(PieceText(i)), url |-> None], GroupSize(PieceText(i)))
         \o GroupMarkers(i + 1)

\* RFC 3986: an absolute reference starts with a scheme, letters up to a ":"
IsAbsoluteReference(u) ==
    LET cs == UrlChars(u)
        letter(c) == c \in {"h", "t", "p", "x", "r", "e", "l", "j", "g"}
    IN  \E k \in 1..Len(cs) : At(cs, k + 1) = ":" /\ \A i \in 1..k : letter(cs[i])

\* An anchor with a link target whose visible text is (<integer>, <status-word>)
IsMarkerAnchor(n) ==
    n.kind = "a" /\ n.href # NoHref /\ GroupSize(n.text) = 1

AbsoluteOnly(href) == IF IsAbsoluteReference(href) THEN href ELSE None
HttpPrefixOnly(href) ==
    IF Len(UrlChars(href)) >= 4 /\ SubSeq(UrlChars(href), 1, 4) = <<"h", "t", "t", "p">>
    THEN href ELSE None

RECURSIVE AnchorMarkers(_, _)
\* The anchors of the markup from piece i on, in document order, each with
\* the source reference its entry is to carry under the rule named
AnchorMarkers(i, rule) ==
    IF i > Len(html_line.nodes) THEN <<>>
    ELSE (IF IsMarkerAnchor(html_line.nodes[i])
          THEN <<[status |-> GroupStatus(html_line.nodes[i].text),
                  url |-> IF rule = "absolute"
                          THEN AbsoluteOnly(html_line.nodes[i].href)
                          ELSE HttpPrefixOnly(html_line.nodes[i].href)]>>
          ELSE <<>>)
         \o AnchorMarkers(i + 1, rule)

\* The markup tier has something to read: markup was passed and holds an anchor
MarkupYields == html_line.given /\ AnchorMarkers(2, "absolute") # <<>>

\* What the caller sees of the returned entries
MarkersOf(es) == [i \in 1..Len(es) |-> [status |-> es[i].status, url |-> es[i].url]]

BmpLine == <<"2", " ", "BMP-1", ":", " ", "(", "1", ",", " ", "captured", ")">>
T64Line == <<"3", " ", "T-64", ":", " ", "(", "1", ",", " ", "destroyed", ")",
             " ", "(", "2", ",", " ", "destroyed", ")">>
TanksLine == <<"5", " ", "Tanks", ":">>

\* C4: the tiers are first-match-wins.  When the markup gives entries the
\* result holds one entry per anchor and nothing from the text or the declared
\* total; when the markup gives none and the text holds groups, the result
\* holds one entry per number of the groups and nothing from the declared
\* total; "2 BMP-1: (1, captured)" gives exactly one entry, captured.
C4_FirstMatchWins ==
    (pc = "parse_done" /\ HeadIsItem) =>
        /\ MarkupYields => Len(parsed) = Len(AnchorMarkers(2, "absolute"))
        /\ (~MarkupYields /\ GroupMarkers(2) # <<>>) => Len(parsed) = Len(GroupMarkers(2))
        /\ line = BmpLine =>
              /\ Len(parsed) = 1
              /\ parsed[1].status = "captured"

\* The markup tier won over text groups and a declared total; and the BMP-1 line
C4_Witness ==
    /\ pc = "parse_done" /\ HeadIsItem /\ MarkupYields
    /\ HeadTotal = 3
    /\ Len(GroupMarkers(2)) = 3
    /\ Len(parsed) = 1

C4_WitnessText ==
    pc = "parse_done" /\ line = BmpLine /\ ~html_line.given /\ Len(parsed) = 1

\* C5 as stated: "3 T-64: (1, destroyed) (2, destroyed)" without markup gives
\* exactly 3 entries, all destroyed, for the country and the type T-64.
C5_ThreeEntries ==
    (pc = "parse_done" /\ line = T64Line /\ ~html_line.given) =>
        /\ Len(parsed) = 3
        /\ \A i \in 1..Len(parsed) :
              /\ parsed[i].status = "destroyed"
              /\ parsed[i].country = Lower(country)
              /\ parsed[i].equipment_type = <<"T-64">>

\* C5 amended: "3 T-64: (1, destroyed) (2, destroyed)" without markup gives
\* exactly 2 entries, one per marker, both destroyed, for the country and the
\* type T-64.
C5_TwoEntries ==
    (pc = "parse_done" /\ line = T64Line /\ ~html_line.given) =>
        /\ Len(parsed) = 2
        /\ \A i \in 1..Len(parsed) :
              /\ parsed[i].status = "destroyed"
              /\ parsed[i].country = Lower(country)
              /\ parsed[i].equipment_type = <<"T-64">>
              /\ parsed[i].url = None

C5_Witness ==
    pc = "parse_done" /\ line = T64Line /\ ~html_line.given /\ country = "Russia"
    /\ parsed # <<>>

\* C6: when the markup tier gives nothing, every group (n1[, n2 ...],
\* status-word) of the line gives as many entries as it has numbers, whatever
\* the numbers, with its status in lower case and no source reference, group
\* after group from left to right; the entries are as many as the numbers of
\* all groups.
C6_GroupPerNumber ==
    (pc = "parse_done" /\ HeadIsItem /\ ~MarkupYields /\ GroupMarkers(2) # <<>>) =>
        MarkersOf(parsed) = GroupMarkers(2)

\* A group of two numbers after a group of one, of another status
C6_Witness ==
    /\ pc = "parse_done" /\ HeadIsItem /\ ~MarkupYields
    /\ Len(html_line.nodes) = 3
    /\ GroupSize(PieceText(2)) = 1 /\ GroupStatus(PieceText(2)) = "abandoned"
    /\ GroupSize(PieceText(3)) = 2
    /\ Len(parsed) = 3

\* C7: an item line with no marker in the markup and none in the text gives
\* exactly N entries, N the declared total, all destroyed and without
\* source reference, and none when N = 0; "5 Tanks:" gives 5.
C7_FallbackDeclaredTotal ==
    (pc = "parse_done" /\ HeadIsItem /\ ~MarkupYields /\ GroupMarkers(2) = <<>>) =>
        /\ MarkersOf(parsed) = Repeat([status |-> "destroyed", url |-> None], HeadTotal)
        /\ line = TanksLine => Len(parsed) = 5

C7_Witness ==
    pc = "parse_done" /\ line = TanksLine /\ Len(parsed) = 5

C7_WitnessZero ==
    pc = "parse_done" /\ HeadTotal = 0 /\ HeadIsItem /\ Len(html_line.nodes) = 2 /\ parsed = <<>>

\* C8 as stated: with markup, every anchor whose visible text is (<integer>,
\* <status-word>) gives one entry, in document order, with the anchor's
\* status; its source reference is the link target when the target is an
\* absolute reference and is absent when the target is relative or empty.
C8_AbsoluteTargetKept ==
    (pc = "parse_done" /\ HeadIsItem /\ MarkupYields) =>
        MarkersOf(parsed) = AnchorMarkers(2, "absolute")

\* What the code does: the link target is kept when it starts with "http"
C8_HttpPrefixKept ==
    (pc = "parse_done" /\ HeadIsItem /\ MarkupYields) =>
        MarkersOf(parsed) = AnchorMarkers(2, "http")

\* C10 as stated: every entry parse_equipment_line returns has a status of
\* the closed set, a non-empty lower-case country and a non-empty
\* equipment_type.
C10_EntryWellFormed ==
    pc = "parse_done" =>
        \A i \in 1..Len(parsed) :
            /\ parsed[i].status \in Statuses
            /\ parsed[i].country # "" /\ parsed[i].country = Lower(parsed[i].country)
            /\ parsed[i].equipment_type # <<>>

-----------------------------------------------------------------------------
(* SpecScan: scrape_equipment_entries(country) reads the blocks of a       *)
(* fetched document one after the other                                    *)

\* <p>Russia losses</p>, <p>Ukraine losses</p>, <p>Russia Ukraine total</p>,
\* <p>Tanks (5</p>, <p>Ukraine Tanks (5</p>, <li>5 Tanks:</li>, <li>0 Tanks:</li>,
\* <li>3 T-64: (1, destroyed) (2, destroyed)</li>,
\* <li>2 BMP (old): <a href="http://x/1">(1, captured)</a></li>, <p>Note</p>, <p> </p>
BlockPool ==
    { <<TextNode(<<"Russia", " ", "losses">>)>>,
      <<TextNode(<<"Ukraine", " ", "losses">>)>>,
      <<TextNode(<<"Russia", " ", "Ukraine", " ", "total">>)>>,
      <<TextNode(<<"Tanks", " ", "(", "5">>)>>,
      <<TextNode(<<"Ukraine", " ", "Tanks", " ", "(", "5">>)>>,
      <<TextNode(<<"5", " ", "Tanks", ":">>)>>,
      <<TextNode(<<"0", " ", "Tanks", ":">>)>>,
      <<TextNode(<<"3", " ", "T-64", ":", " ", "(", "1", ",", " ", "destroyed", ")",
                   " ", "(", "2", ",", " ", "destroyed", ")">>)>>,
      <<TextNode(<<"2", " ", "BMP", " ", "(", "old", ")", ":", " ">>),
        Anchor("http://x/1", <<"(", "1", ",", " ", "captured", ")">>)>>,
      <<TextNode(<<"Note">>)>>,
      <<TextNode(<<" ">>)>> }

ScanCountryPool == {"russia", "Ukraine"}

InitScan ==
    /\ pc = "scan"
    /\ country \in ScanCountryPool
    /\ ScanIdle /\ AggIdle /\ ParseIdle /\ ScrapeIdle

\* The next element of the document
ScanBlock ==
    /\ pc = "scan"
    /\ Len(doc) < MaxBlocks
    /\ \E element \in BlockPool :
        /\ doc' = Append(doc, element)
        /\ LoopBody(element)
    /\ UNCHANGED <<country, aggVars, parseVars, scrapeVars>>

\* The document has no more elements: return entries
ScanEnd ==
    /\ pc = "scan"
    /\ pc' = "scan_done"
    /\ UNCHANGED <<country, aggVars, parseVars, scanVars, scrapeVars>>

NextScan == ScanBlock \/ ScanEnd

SpecScan == InitScan /\ [][NextScan]_vars

-----------------------------------------------------------------------------
(* Claims about the scan (SpecScan) *)

OtherCountry == IF Lower(country) = "russia" THEN "ukraine" ELSE "russia"

\* In the blocks d, a block after a section header of the country mentions
\* the other country
MentionAfterHeader(d) ==
    \E h, x \in 1..Len(d) :
        /\ h < x
        /\ IsSectionHeader(GetText(d[h]), Lower(country))
        /\ Contains(GetText(d[x]), OtherCountry)

\* The same, the mentioning block not being a section header of the country itself
PlainMentionAfterHeader(d) ==
    \E h, x \in 1..Len(d) :
        /\ h < x
        /\ IsSectionHeader(GetText(d[h]), Lower(country))
        /\ Contains(GetText(d[x]), OtherCountry)
        /\ ~IsSectionHeader(GetText(d[x]), Lower(country))

\* C9 as stated: once a section header has set in_country_section, the first
\* later block that mentions the other country halts the scan: that block and
\* the blocks after it add no entry to the result.
C9_HaltAtMention ==
    [][MentionAfterHeader(doc') => entries' = entries]_vars

\* C9 amended: once a section header has set in_country_section, the first
\* later block that mentions the other country and is not itself a section
\* header of the scanned country halts the scan: that block and the blocks
\* after it add no entry to the result.
C9_HaltAtPlainMention ==
    [][PlainMentionAfterHeader(doc') => (entries' = entries /\ pc' = "scan_done")]_vars

\* The scan for russia was halted with entries in hand
C9_Witness ==
    /\ pc = "scan_done"
    /\ country = "russia"
    /\ PlainMentionAfterHeader(doc)
    /\ entries # <<>>
    /\ Len(doc) = MaxBlocks

\* The block the step has read, its text and its markup
Block(d) == d[Len(d)]
BlockText(d) == GetText(Block(d))
BlockMarkup(d) == [given |-> TRUE, nodes |-> Block(d)]

TanksBlock == <<TextNode(<<"5", " ", "Tanks", ":">>)>>
ZeroTanksBlock == <<TextNode(<<"0", " ", "Tanks", ":">>)>>
T64Block ==
    <<TextNode(<<"3", " ", "T-64", ":", " ", "(", "1", ",", " ", "destroyed", ")",
                 " ", "(", "2", ",", " ", "destroyed", ")">>)>>
BmpOldBlock ==
    <<TextNode(<<"2", " ", "BMP", " ", "(", "old", ")", ":", " ">>),
      Anchor("http://x/1", <<"(", "1", ",", " ", "captured", ")">>)>>
HeaderRussia == <<TextNode(<<"Russia", " ", "losses">>)>>
HeaderBoth == <<TextNode(<<"Russia", " ", "Ukraine", " ", "total">>)>>
CategoryTanks == <<TextNode(<<"Tanks", " ", "(", "5">>)>>
CategoryUkraineTanks == <<TextNode(<<"Ukraine", " ", "Tanks", " ", "(", "5">>)>>
NoteBlock == <<TextNode(<<"Note">>)>>

\* The blocks whose text has the shape of an item declaration: an integer,
\* whitespace, a name, a colon
DeclaresItem(b) == b \in {TanksBlock, ZeroTanksBlock, T64Block, BmpOldBlock}

\* The block mentions the other country while the scan is in the section and
\* is not itself a section header of the scanned country: the exit of C9
EndsSection(d, in_section) ==
    /\ in_section
    /\ Contains(BlockText(d), OtherCountry)
    /\ ~IsSectionHeader(BlockText(d), Lower(country))

C14_EntriesOnlyInSectionUnderCategory ==
    [][entries' # entries =>
          /\ doc' # doc
          /\ in_country_section /\ current_category # NoCategory
          /\ in_country_section' /\ current_category' = current_category
          /\ \E h \in 1..Len(doc) : IsSectionHeader(GetText(doc[h]), Lower(country))
          /\ \E c \in 1..Len(doc) : CategoryMatch(GetText(doc[c])).ok
          /\ ~IsSectionHeader(BlockText(doc'), Lower(country))
          /\ ~CategoryMatch(BlockText(doc')).ok]_vars

\* The item line was read in the section before the category header and
\* again after it; only the second gave entries
C14_Witness ==
    /\ Len(doc) = 4
    /\ doc[1] = HeaderRussia /\ doc[2] = TanksBlock
    /\ doc[3] = CategoryTanks /\ doc[4] = TanksBlock
    /\ country = "russia"
    /\ Len(entries) = 5

\* C15 as stated: a block read with in_country_section and current_category
\* set, that is no section header and does not end the section, and whose
\* text has the shape of an item declaration, has the entries
\* parse_equipment_line returns for it appended to the result and leaves
\* current_category as it is; "3 T-64: (1, destroyed) (2, destroyed)" is one.
C15_ItemLineParsed ==
    [][(/\ doc' # doc
        /\ in_country_section /\ current_category # NoCategory
        /\ ~IsSectionHeader(BlockText(doc'), Lower(country))
        /\ ~Contains(BlockText(doc'), OtherCountry)
        /\ DeclaresItem(Block(doc'))) =>
          /\ entries' = entries \o parse_equipment_line(BlockText(doc'), country,
                                                        current_category, BlockMarkup(doc'))
          /\ current_category' = current_category]_vars

\* What the code does with the item lines the category pattern does not
\* match: they are parsed and appended
C15_PlainItemLineParsed ==
    [][(/\ doc' # doc
        /\ in_country_section /\ current_category # NoCategory
        /\ ~IsSectionHeader(BlockText(doc'), Lower(country))
        /\ ~Contains(BlockText(doc'), OtherCountry)
        /\ DeclaresItem(Block(doc'))
        /\ Block(doc') # T64Block) =>
          /\ entries' = entries \o parse_equipment_line(BlockText(doc'), country,
                                                        current_category, BlockMarkup(doc'))
          /\ current_category' = current_category]_vars

\* The heuristics a block satisfies, read before the block is processed
IsEntry(d) == IsSectionHeader(BlockText(d), Lower(country))
IsExit(d, in_section) == in_section /\ Contains(BlockText(d), OtherCountry)
IsCategory(d) == CategoryMatch(BlockText(d)).ok
IsItem(d, in_section, category) ==
    in_section /\ category # NoCategory /\ ItemMatch(BlockText(d)).ok

\* C16: every non-empty block takes exactly one outcome, by the precedence
\* section-entry, section-exit, category-header, item line, and is skipped
\* when none applies.  Section-entry: the flag is set, nothing else changes
\* and the scan goes on, even if the block names the other country.  Exit:
\* the scan halts and nothing changes.  Category: the label changes and no
\* entry is added, even if the block is an item line.  Item: the entries of
\* the line are appended and nothing else changes.
C16_OneOutcomeByPrecedence ==
    [][(doc' # doc /\ BlockText(doc') # <<>>) =>
          LET e == IsEntry(doc')
              x == IsExit(doc', in_country_section)
              c == IsCategory(doc')
              i == IsItem(doc', in_country_section, current_category)
          IN  /\ e => /\ in_country_section' /\ pc' = "scan"
                      /\ entries' = entries /\ current_category' = current_category
              /\ (~e /\ x) => /\ pc' = "scan_done"
                              /\ UNCHANGED <<in_country_section, current_category, entries>>
              /\ (~e /\ ~x /\ c) =>
                      /\ current_category' = CategoryMatch(BlockText(doc')).label
                      /\ pc' = "scan"
                      /\ UNCHANGED <<in_country_section, entries>>
              /\ (~e /\ ~x /\ ~c /\ i) =>
                      /\ entries' = entries \o parse_equipment_line(BlockText(doc'), country,
                                                     current_category, BlockMarkup(doc'))
                      /\ pc' = "scan"
                      /\ UNCHANGED <<in_country_section, current_category>>
              /\ (~e /\ ~x /\ ~c /\ ~i) =>
                      /\ pc' = "scan"
                      /\ UNCHANGED <<in_country_section, current_category, entries>>]_vars

\* In the section of russia: "Russia Ukraine total" was taken as a section
\* header, "3 T-64: (1, destroyed) (2, destroyed)" as a category, then
\* "Ukraine Tanks (5" as the exit
C16_Witness ==
    /\ Len(doc) = 4
    /\ doc[1] = HeaderRussia /\ doc[2] = HeaderBoth /\ doc[3] = T64Block
    /\ doc[4] = CategoryUkraineTanks
    /\ country = "russia"
    /\ pc = "scan_done"
    /\ current_category = <<"3", " ", "T-64", ":">>
    /\ entries = <<>>

\* C17: both flags start cleared.  in_country_section changes only by being
\* set by a section header and is never cleared.  current_category changes
\* only to the label of a block that matches the category pattern, inside the
\* section or not, is never cleared, and is kept by a section header.  A
\* block that is neither leaves both flags as they are.
C17_FlagsChangeOnlyAtHeaders ==
    /\ [](doc = <<>> => (~in_country_section /\ current_category = NoCategory))
    /\ [][/\ in_country_section => in_country_section'
          /\ in_country_section' # in_country_section => doc' # doc /\ IsEntry(doc')
          /\ current_category' # current_category =>
                /\ doc' # doc /\ IsCategory(doc')
                /\ current_category' = CategoryMatch(BlockText(doc')).label
                /\ current_category' # NoCategory /\ current_category' # <<>>
          /\ (doc' # doc /\ IsEntry(doc')) => current_category' = current_category
          /\ (doc' # doc /\ ~IsEntry(doc') /\ ~IsCategory(doc')) =>
                UNCHANGED <<in_country_section, current_category>>]_vars

\* A category set before the section was kept across the section header, an
\* item line and a note
C17_Witness ==
    /\ Len(doc) = 4
    /\ doc[1] = CategoryTanks /\ doc[2] = HeaderRussia
    /\ doc[3] = TanksBlock /\ doc[4] = NoteBlock
    /\ country = "russia"
    /\ in_country_section /\ current_category = <<"Tanks">>
    /\ Len(entries) = 5

-----------------------------------------------------------------------------
(* SpecScrape: a caller calls scrape(countries), scrape_to_csv() or        *)
(* scrape_to_json(output_file).  scrape calls scrape_equipment_entries     *)
(* for one country after the other; each call fetches the page, looks for  *)
(* its content and reads the blocks, which the model draws one at a time.  *)

\* <p>Russia losses</p>, <p>Ukraine losses</p>, <p>Tanks (5</p>,
\* <li>5 Tanks:</li>, <li>2 BMP (old): <a href="http://x/1">(1, captured)</a></li>
ScrapeBlockPool ==
    { <<TextNode(<<"Russia", " ", "losses">>)>>,
      <<TextNode(<<"Ukraine", " ", "losses">>)>>,
      <<TextNode(<<"Tanks", " ", "(", "5">>)>>,
      <<TextNode(<<"5", " ", "Tanks", ":">>)>>,
      <<TextNode(<<"2", " ", "BMP", " ", "(", "old", ")", ":", " ">>),
        Anchor("http://x/1", <<"(", "1", ",", " ", "captured", ")">>)>> }

\* The lists a caller may pass as countries
CountryLists == UNION {[1..n -> {"russia", "ukraine"}] : n \in 0..MaxCountries}

\* scrape_to_csv and scrape_to_json call self.scrape() without countries
CallPool ==
    {[method |-> "scrape", countries |-> c, output_file |-> None] : c \in CountryLists \cup {NoCountries}}
    \cup {[method |-> "scrape_to_csv", countries |-> NoCountries, output_file |-> None]}
    \cup {[method |-> "scrape_to_json", countries |-> NoCountries, output_file |-> f] :
              f \in {None, "out.json"}}

\* One step of the run, as the caller and the network see it
Event(op, i, c, es) == [op |-> op, i |-> i, country |-> c, entries |-> es]

\* A bug: the page fetched for the first country is used for the others
FetchesCached(i, c) == IF i = 1 THEN <<Event("fetch", i, c, <<>>)>> ELSE <<>>

\* html_content = self.fetch_page(): the requests the i-th call of
\* scrape_equipment_entries sends
Fetches(i, c) == <<Event("fetch", i, c, <<>>)>>

\* A bug: scrape goes on with the next country when the extraction of one fails
RaiseSwallowed(exc) == [pc |-> "scan_done", error |-> None]

\* raise: neither scrape_equipment_entries nor scrape, scrape_to_csv,
\* scrape_to_json has a handler, so the exception leaves the call
Raise(exc) == [pc |-> "raised", error |-> exc]

\* A bug: the rows of the daily table are counted
TotalEntriesRows(es) == Len(generate_daily_count_csv(es))

\* "total_entries": len(all_entries)
TotalEntries(es) == Len(es)

InitScrape ==
    /\ pc = "call"
    /\ call \in CallPool
    /\ countries = NoCountries /\ idx = 0 /\ trace = <<>>
    /\ result = NoResult /\ error = None /\ files = {}
    /\ country = ""
    /\ AggIdle /\ ParseIdle /\ ScanIdle

\* The call up to the loop: os.makedirs(output_dir) in scrape_to_csv makes
\* a directory and no file; scrape defaults countries and starts all_entries
ScrapeBegin ==
    /\ pc = "call"
    /\ countries' = IF call.countries = NoCountries THEN <<"russia", "ukraine">> ELSE call.countries
    /\ idx' = 1
    /\ pc' = "for_country"
    /\ UNCHANGED <<call, trace, result, error, files, country, aggVars, parseVars, scanVars>>

\* scrape_equipment_entries(country): fetch_page raises OryxScraperNetworkError
\* (httpx.RequestError or httpx.HTTPStatusError)
FetchFails ==
    /\ pc = "for_country"
    /\ idx <= Len(countries)
    /\ country' = countries[idx]
    /\ trace' = trace \o Fetches(idx, countries[idx])
                      \o <<Event("failed", idx, countries[idx], <<>>)>>
    /\ pc' = Raise("OryxScraperNetworkError").pc
    /\ error' = Raise("OryxScraperNetworkError").error
    /\ UNCHANGED <<call, countries, idx, result, files, aggVars, parseVars, scanVars>>

\* scrape_equipment_entries(country): the page is fetched and none of
\* div.post-body, div.post, article, body is in it
ContentMissing ==
    /\ pc = "for_country"
    /\ idx <= Len(countries)
    /\ country' = countries[idx]
    /\ trace' = trace \o Fetches(idx, countries[idx])
                      \o <<Event("failed", idx, countries[idx], <<>>)>>
    /\ pc' = Raise("OryxScraperParseError").pc
    /\ error' = Raise("OryxScraperParseError").error
    /\ UNCHANGED <<call, countries, idx, result, files, aggVars, parseVars, scanVars>>

\* scrape_equipment_entries(country): the page is fetched, the content is
\* found, the locals of the loop are set
ScanBegin ==
    /\ pc = "for_country"
    /\ idx <= Len(countries)
    /\ country' = countries[idx]
    /\ trace' = trace \o Fetches(idx, countries[idx])
    /\ doc' = <<>>
    /\ entries' = <<>>
    /\ current_category' = NoCategory
    /\ in_country_section' = FALSE
    /\ pc' = "scan"
    /\ UNCHANGED <<call, countries, idx, result, error, files, aggVars, parseVars>>

\* The next element of the fetched document
ScrapeBlock ==
    /\ pc = "scan"
    /\ Len(doc) < MaxDocBlocks
    /\ \E element \in ScrapeBlockPool :
        /\ doc' = Append(doc, element)
        /\ LoopBody(element)
    /\ UNCHANGED <<country, aggVars, parseVars, scrapeVars>>

\* return entries; all_entries.extend(entries); the locals of the scan are gone
ScanReturn ==
    /\ pc = "scan_done"
    /\ all_entries' = all_entries \o entries
    /\ trace' = Append(trace, Event("returned", idx, country, entries))
    /\ idx' = idx + 1
    /\ doc' = <<>>
    /\ entries' = <<>>
    /\ current_category' = NoCategory
    /\ in_country_section' = FALSE
    /\ pc' = "for_country"
    /\ UNCHANGED <<call, countries, result, error, files, country, parseVars,
                   perm_entries, daily_count, totals_by_type, daily_perm, totals_perm>>

\* The loop is over: the two tables and the returned dict
ScrapeReturn ==
    /\ pc = "for_country"
    /\ idx > Len(countries)
    /\ daily_count' = generate_daily_count_csv(all_entries)
    /\ totals_by_type' = generate_totals_by_type_csv(all_entries)
    /\ result' = [url |-> BASE_URL,
                  date_scraped |-> current_date,
                  total_entries |-> TotalEntries(all_entries),
                  daily_count |-> generate_daily_count_csv(all_entries),
                  totals_by_type |-> generate_totals_by_type_csv(all_entries)]
    /\ pc' = CASE call.method = "scrape_to_csv" -> "save_csv"
               [] call.method = "scrape_to_json" -> "save_json"
               [] OTHER -> "done"
    /\ UNCHANGED <<call, countries, idx, trace, error, files, country, parseVars, scanVars,
                   all_entries, perm_entries, daily_perm, totals_perm>>

\* scrape_to_csv after data = self.scrape(): the two save_csv calls
SaveCsv ==
    /\ pc = "save_csv"
    /\ files' = files \cup {[name |-> "daily_count.csv", content |-> result.daily_count],
                            [name |-> "totals_by_type.csv", content |-> result.totals_by_type]}
    /\ pc' = "done"
    /\ UNCHANGED <<call, countries, idx, trace, result, error, country,
                   aggVars, parseVars, scanVars>>

\* scrape_to_json after data = self.scrape(): the dump is written if output_file
SaveJson ==
    /\ pc = "save_json"
    /\ files' = IF call.output_file # None
                THEN files \cup {[name |-> call.output_file, content |-> result]}
                ELSE files
    /\ pc' = "done"
    /\ UNCHANGED <<call, countries, idx, trace, result, error, country,
                   aggVars, parseVars, scanVars>>

NextScrape ==
    \/ ScrapeBegin \/ FetchFails \/ ContentMissing \/ ScanBegin \/ ScrapeBlock
    \/ ScanEnd \/ ScanReturn \/ ScrapeReturn \/ SaveCsv \/ SaveJson

SpecScrape == InitScrape /\ [][NextScrape]_vars

-----------------------------------------------------------------------------
(* Claims about scrape (SpecScrape) *)

\* The steps of the run of one kind
StepsOf(op) == {k \in 1..Len(trace) : trace[k].op = op}

RECURSIVE ReturnedFrom(_)
\* The entries of the scans that returned, from step k of the run on, in order
ReturnedFrom(k) ==
    IF k > Len(trace) THEN <<>>
    ELSE (IF trace[k].op = "returned" THEN trace[k].entries ELSE <<>>) \o ReturnedFrom(k + 1)

RECURSIVE SumTypeTotal(_, _)
SumTypeTotal(rows, j) ==
    IF j > Len(rows) THEN 0 ELSE rows[j].type_total + SumTypeTotal(rows, j + 1)

RECURSIVE SumTotal(_, _)
SumTotal(rows, j) ==
    IF j > Len(rows) THEN 0 ELSE rows[j].total + SumTotal(rows, j + 1)

\* C11: extraction is all-or-nothing.  Once the fetch has failed or no
\* content was found for a requested country, whatever was scanned before,
\* the exception has left the call: no dict is returned, no table is built
\* and no file is written.  A returned dict and a written file come only
\* after the scan of every requested country has returned.
C11_AllOrNothing ==
    /\ StepsOf("failed") # {} =>
          /\ pc = "raised" /\ error \in {"OryxScraperNetworkError", "OryxScraperParseError"}
          /\ result = NoResult
          /\ daily_count = <<>> /\ totals_by_type = <<>>
          /\ files = {}
    /\ result # NoResult =>
          /\ error = None
          /\ \A i \in 1..Len(countries) :
                \E k \in StepsOf("returned") : trace[k].i = i /\ trace[k].country = countries[i]
    /\ files # {} => result # NoResult

\* scrape_to_csv: russia was scanned and gave entries, then the page fetched
\* for ukraine held no content
C11_Witness ==
    /\ call.method = "scrape_to_csv"
    /\ error = "OryxScraperParseError"
    /\ Len(trace) = 4
    /\ trace[2].op = "returned" /\ trace[2].country = "russia" /\ trace[2].entries # <<>>
    /\ trace[4].op = "failed" /\ trace[4].country = "ukraine"
    /\ result = NoResult /\ files = {}

\* C13: in the dict scrape returns, total_entries is the number of entries
\* the scans of the requested countries returned, the sum of type_total over
\* the daily_count rows and the sum of total over the totals_by_type rows.
C13_TotalEntriesAgree ==
    result # NoResult =>
        /\ result.total_entries = Len(ReturnedFrom(1))
        /\ result.total_entries = SumTypeTotal(result.daily_count, 1)
        /\ result.total_entries = SumTotal(result.totals_by_type, 1)

\* Two countries gave entries of two types
C13_Witness ==
    /\ pc = "done"
    /\ result.total_entries = 6
    /\ Len(result.daily_count) = 2 /\ Len(result.totals_by_type) = 2
    /\ \A k \in StepsOf("returned") : trace[k].entries # <<>>
    /\ Len(countries) = 2

\* C18: the countries are processed in list order, one fetch for each: the
\* run is fetch 1, scan 1, fetch 2, scan 2, ..., every step for the country of
\* its position in the list; a scan runs between its own fetch and its
\* return; the combined list is the per-country results in that order; and
\* when scrape returns there were as many fetches as requested countries.
C18_InOrderOneFetchEach ==
    /\ \A k \in 1..Len(trace) :
          /\ trace[k].i = (k + 1) \div 2
          /\ trace[k].country = countries[(k + 1) \div 2]
          /\ k % 2 = 1 => trace[k].op = "fetch"
          /\ k % 2 = 0 => trace[k].op \in {"returned", "failed"}
    /\ pc \in {"scan", "scan_done"} =>
          /\ trace # <<>> /\ trace[Len(trace)].op = "fetch"
          /\ trace[Len(trace)].country = country
    /\ all_entries = ReturnedFrom(1)
    /\ result # NoResult =>
          /\ Cardinality(StepsOf("fetch")) = Len(countries)
          /\ Cardinality(StepsOf("returned")) = Len(countries)

\* ukraine before russia, both with entries, the list in that order
C18_Witness ==
    /\ pc = "done"
    /\ countries = <<"ukraine", "russia">>
    /\ Len(trace) = 4
    /\ trace[2].entries # <<>> /\ trace[4].entries # <<>>
    /\ all_entries = trace[2].entries \o trace[4].entries
    /\ all_entries[1].country = "ukraine"
    /\ all_entries[Len(all_entries)].country = "russia"

-----------------------------------------------------------------------------
(* Claims about the aggregations (SpecAgg) *)

Range(s) == {s[i] : i \in 1..Len(s)}

DailyRowKey(row) == <<row.country, row.equipment_type, row.date_recorded>>
TotalsRowKey(row) == <<row.country, row.type>>
FourCounts(row) == row.destroyed + row.abandoned + row.captured + row.damaged

\* The key of an entry as the entry itself states it
StatedKey(e) == <<e.country, e.equipment_type, e.date_recorded>>

\* The key of an entry with a missing date read as the date of the run
DatedKey(e) ==
    <<e.country, e.equipment_type,
      IF e.date_recorded \in {None, ""} THEN current_date ELSE e.date_recorded>>

RECURSIVE SumDaily(_, _, _, _)
\* The sum of one status count over the daily rows from j on with this country and type
SumDaily(rows, j, key, st) ==
    IF j > Len(rows) THEN 0
    ELSE (IF <<rows[j].country, rows[j].equipment_type>> = key THEN rows[j][st] ELSE 0)
         + SumDaily(rows, j + 1, key, st)

\* C1 as stated: one daily row per distinct (country, equipment_type,
\* date_recorded) of the list, each row's type_total the sum of its four
\* counts and the number of entries of the list with the row's key.
C1_RowPerStatedKey ==
    pc = "agg_done" =>
        /\ Cardinality(Range(daily_count)) = Len(daily_count)
        /\ {DailyRowKey(r) : r \in Range(daily_count)} = {StatedKey(e) : e \in Range(all_entries)}
        /\ Len(daily_count) = Cardinality({StatedKey(e) : e \in Range(all_entries)})
        /\ \A r \in Range(daily_count) :
              /\ r.type_total = FourCounts(r)
              /\ r.type_total =
                   Cardinality({i \in 1..Len(all_entries) : StatedKey(all_entries[i]) = DailyRowKey(r)})

\* C1 amended: one daily row per distinct (country, equipment_type, date),
\* where the date of an entry without date_recorded is the run's current
\* date; each row's type_total is the sum of its four counts and the number
\* of entries of the list with the row's key.
C1_RowPerDatedKey ==
    pc = "agg_done" =>
        /\ Len(daily_count) = Cardinality({DatedKey(e) : e \in Range(all_entries)})
        /\ {DailyRowKey(r) : r \in Range(daily_count)} = {DatedKey(e) : e \in Range(all_entries)}
        /\ \A r \in Range(daily_count) :
              /\ r.type_total = FourCounts(r)
              /\ r.type_total =
                   Cardinality({i \in 1..Len(all_entries) : DatedKey(all_entries[i]) = DailyRowKey(r)})

\* An undated entry was merged into the row of the run's date, beside another row
C1_Witness ==
    /\ pc = "agg_done"
    /\ Len(daily_count) >= 2
    /\ \E r \in Range(daily_count) : r.type_total >= 2 /\ r.date_recorded = current_date
    /\ \E e \in Range(all_entries) : e.date_recorded = None /\ e.country = "russia"

\* C2: every totals row has total = the sum of its four counts, there is one
\* totals row per (country, equipment_type) of the list, and each of its
\* status counts is the sum of that count over the daily rows of the same
\* country and equipment_type, whatever their date.
C2_TotalsAgreeWithDaily ==
    pc = "agg_done" =>
        /\ \A t \in Range(totals_by_type) : t.total = FourCounts(t)
        /\ \A e \in Range(all_entries) :
              \E t \in Range(totals_by_type) : TotalsRowKey(t) = <<e.country, e.equipment_type>>
        /\ \A r \in Range(daily_count) :
              \E t \in Range(totals_by_type) : TotalsRowKey(t) = <<r.country, r.equipment_type>>
        /\ \A j \in 1..Len(totals_by_type) :
              \A st \in Statuses :
                  totals_by_type[j][st] =
                      SumDaily(daily_count, 1, TotalsRowKey(totals_by_type[j]), st)

\* A totals row that adds up daily rows of two dates
C2_Witness ==
    /\ pc = "agg_done"
    /\ \E t \in Range(totals_by_type) :
          /\ t.total >= 2
          /\ Cardinality({r \in Range(daily_count) :
                            <<r.country, r.equipment_type>> = TotalsRowKey(t)}) >= 2

\* C3: a reordering of the list gives both tables the same set of rows
\* (keys, four counts, total); only the order of the rows may differ.
C3_OrderInvariant ==
    pc = "agg_done" =>
        /\ Range(daily_perm) = Range(daily_count)
        /\ Len(daily_perm) = Len(daily_count)
        /\ Range(totals_perm) = Range(totals_by_type)
        /\ Len(totals_perm) = Len(totals_by_type)

\* A reordering that changed the order of the rows of both tables
C3_Witness ==
    /\ pc = "agg_done"
    /\ perm_entries # all_entries
    /\ daily_perm # daily_count
    /\ totals_perm # totals_by_type
    /\ \E r \in Range(daily_count) : r.type_total >= 2

====
